---- MODULE Spec2Model ----
(***************************************************************************)
(* Model of the Express backend in src/index.js: the asset routes, the     *)
(* upload endpoints, the Supabase storage helpers and the product/banner   *)
(* delete cascade.                                                         *)
(*                                                                         *)
(* Strings are sequences of tokens.  A token is a run of characters that   *)
(* holds no '/', so "/" is always a token of its own and the patterns the  *)
(* code searches for ('/storage/v1/object/public/', 'http://', 'bucket/')  *)
(* are token sequences.  The JavaScript string operations the code uses    *)
(* (includes, split, startsWith, substring, replace, trim) are the         *)
(* operators below, computed on token sequences.  null, undefined and ''   *)
(* are all the empty sequence: the code only tests them for truthiness.    *)
(***************************************************************************)
EXTENDS Integers, Sequences, FiniteSets, TLC

VARIABLES
    supabase,   \* TRUE iff the Supabase client was created (index.js:88-95)
    isVercel,   \* index.js:17
    bucket,     \* the keys of the objects stored in the storage bucket 'products'
    issued,     \* the {path, publicUrl} results successful uploads have returned
    products,   \* the rows of the products table: id -> [image, images, video]
    banners,    \* the rows of the banners table: id -> [image_url]
    fs,         \* the files on disk: path -> size in bytes (0 = no such file)
    req,        \* the request handled last
    res,        \* the response written for it
    calls,      \* the calls it issued, in order, to the storage and the database
    stream      \* the read stream it opened and piped into the response

vars == <<supabase, isVercel, bucket, issued, products, banners, fs, req, res, calls, stream>>

----------------------------------------------------------------------------
(* Bounds of the model *)

MaxTime == 1        \* Date.now() ranges over 0..MaxTime
MaxRand == 1        \* Math.round(Math.random() * 1E9) ranges over 0..MaxRand
MaxObjects == 1     \* uploads stop when the bucket holds this many objects

----------------------------------------------------------------------------
(* JavaScript string operations on token sequences *)

StartsWith(s, p) ==
    /\ Len(s) >= Len(p)
    /\ SubSeq(s, 1, Len(p)) = p

\* String.prototype.indexOf, 1-based; 0 when p does not occur in s
IndexOf(s, p) ==
    LET hits == {i \in 1..(Len(s) - Len(p) + 1) : SubSeq(s, i, i + Len(p) - 1) = p}
    IN  IF hits = {} THEN 0 ELSE CHOOSE i \in hits : \A j \in hits : i <= j

Includes(s, p) == IndexOf(s, p) # 0

\* String.prototype.substring(n)
Substring(s, n) == SubSeq(s, n + 1, Len(s))

\* s.split(p)[0]
SplitFirst(s, p) ==
    IF Includes(s, p) THEN SubSeq(s, 1, IndexOf(s, p) - 1) ELSE s

\* what follows the first occurrence of p in s (s must include p)
AfterFirst(s, p) == Substring(s, IndexOf(s, p) + Len(p) - 1)

\* s.split(p)[1] (s must include p): split matches left to right without overlap
SplitSecond(s, p) == SplitFirst(AfterFirst(s, p), p)

\* s.split(p).slice(1).join(p)
SplitRest(s, p) == IF Includes(s, p) THEN AfterFirst(s, p) ELSE <<>>

\* s.replace(p, '') with a string pattern: the first occurrence only
ReplaceFirst(s, p) ==
    IF Includes(s, p)
    THEN SubSeq(s, 1, IndexOf(s, p) - 1) \o AfterFirst(s, p)
    ELSE s

IsSpace(t) == t = " "

\* String.prototype.trim
Trim(s) ==
    LET keep == {i \in 1..Len(s) : ~IsSpace(s[i])}
    IN  IF keep = {} THEN <<>>
        ELSE SubSeq(s, CHOOSE i \in keep : \A j \in keep : i <= j,
                       CHOOSE i \in keep : \A j \in keep : i >= j)

----------------------------------------------------------------------------
(* Storage references *)

Slash == <<"/">>
Http == <<"http:", "/", "/">>
Https == <<"https:", "/", "/">>
PublicMarker == <<"/", "storage", "/", "v1", "/", "object", "/", "public", "/">>
ProductsBucket == <<"products">>
SupabaseUrl == <<"https:", "/", "/", "proj.supabase.co">>

\* getPublicUrl of the storage client for the object `key` of `bkt`
PublicUrl(bkt, key) == SupabaseUrl \o PublicMarker \o bkt \o Slash \o key

\* new URL(s): the authority is what follows the scheme up to the next
\* '/', '?' or '#'; an empty authority makes the constructor throw
UrlRest(s) == Substring(s, 3)

UrlStops(s) == {i \in 1..Len(s) : s[i] \in {"/", "?", "#"}}

UrlValid(s) ==
    LET r == UrlRest(s)
    IN  r # <<>> /\ r[1] \notin {"/", "?", "#"}

\* new URL(s).pathname
UrlPathname(s) ==
    LET r     == UrlRest(s)
        stops == UrlStops(r)
        first == IF stops = {} THEN 0 ELSE CHOOSE i \in stops : \A j \in stops : i <= j
        tail  == IF first = 0 THEN <<>> ELSE Substring(r, first - 1)
        ends  == {i \in 1..Len(tail) : tail[i] \in {"?", "#"}}
        cut   == IF ends = {} THEN Len(tail) + 1 ELSE CHOOSE i \in ends : \A j \in ends : i <= j
        path  == SubSeq(tail, 1, cut - 1)
    IN  IF path = <<>> THEN Slash ELSE path

----------------------------------------------------------------------------
(* deleteFromSupabaseStorage, index.js:335-394 *)

\* ExtractPath with the leading slash of a plain path left in place
ExtractPath_KeepSlash(filePath, bkt) ==
    IF Includes(filePath, PublicMarker)
    THEN LET afterPublic == SplitSecond(filePath, PublicMarker)
         IN  IF SplitFirst(afterPublic, Slash) = bkt
             THEN SplitRest(afterPublic, Slash)
             ELSE afterPublic
    ELSE IF StartsWith(filePath, Http) \/ StartsWith(filePath, Https)
    THEN ReplaceFirst(UrlPathname(filePath), PublicMarker \o bkt \o Slash)
    ELSE filePath

\* index.js:343-370: the path taken out of the reference, before the bucket
\* prefix is removed
ExtractPath(filePath, bkt) ==
    IF Includes(filePath, PublicMarker)
    THEN LET afterPublic == SplitSecond(filePath, PublicMarker)
         IN  IF SplitFirst(afterPublic, Slash) = bkt
             THEN SplitRest(afterPublic, Slash)
             ELSE afterPublic
    ELSE IF StartsWith(filePath, Http) \/ StartsWith(filePath, Https)
    THEN ReplaceFirst(UrlPathname(filePath), PublicMarker \o bkt \o Slash)
    ELSE IF StartsWith(filePath, Slash)
    THEN Substring(filePath, 1)
    ELSE filePath

\* StripBucketPrefix without its startsWith test
StripBucketPrefix_Always(path, bkt) == Substring(path, Len(bkt) + 1)

\* index.js:372-375
StripBucketPrefix(path, bkt) ==
    IF StartsWith(path, bkt \o Slash) THEN Substring(path, Len(bkt) + 1) ELSE path

\* index.js:358-366: new URL(filePath) throws and the function returns
UrlParseFails(filePath) ==
    /\ ~Includes(filePath, PublicMarker)
    /\ StartsWith(filePath, Http) \/ StartsWith(filePath, Https)
    /\ ~UrlValid(filePath)

PathToDelete(filePath, bkt) == StripBucketPrefix(ExtractPath(filePath, bkt), bkt)

\* IsEmptyPath without the trim
IsEmptyPath_NoTrim(path) == path = <<>>

\* index.js:377: !pathToDelete || pathToDelete.trim() === ''
IsEmptyPath(path) == path = <<>> \/ Trim(path) = <<>>

\* index.js:391-393: what the catch block does with an exception thrown in
\* the try block; "return" = logged, the function completes normally
CatchInDelete_Rethrow == "throw"

CatchInDelete == "return"

\* The whole function.  outcome is what supabase.storage.remove does when it
\* is called: "ok", "error" ({error} returned) or "throw".  The result:
\* completion "return" or "throw", the keys handed to remove (none or one),
\* whether the object was removed, and what was logged.
deleteFromSupabaseStorage(filePath, bkt, outcome) ==
    IF ~supabase \/ filePath = <<>>
    THEN [completion |-> "return", remove |-> <<>>, removed |-> FALSE, log |-> "none"]
    ELSE IF UrlParseFails(filePath)
    THEN [completion |-> "return", remove |-> <<>>, removed |-> FALSE, log |-> "parse-error"]
    ELSE LET pathToDelete == PathToDelete(filePath, bkt)
         IN  IF IsEmptyPath(pathToDelete)
             THEN [completion |-> "return", remove |-> <<>>, removed |-> FALSE,
                   log |-> "empty-path"]
             ELSE IF outcome = "throw"
             THEN [completion |-> CatchInDelete, remove |-> <<pathToDelete>>,
                   removed |-> FALSE, log |-> "error"]
             ELSE [completion |-> "return", remove |-> <<pathToDelete>>,
                   removed |-> (outcome = "ok"),
                   log |-> IF outcome = "ok" THEN "deleted" ELSE "error"]

RemoveOutcomes == {"ok", "error", "throw"}

----------------------------------------------------------------------------
(* uploadToSupabaseStorage, index.js:284-332 *)

ExtTokens == {".png", ".PNG", ".jpg", ".jpeg", ".gif", ".webp", ".mp4", ".pdf"}

\* path.extname(originalname): from the last '.' of the name, '' when the name
\* has no '.' after its first character
Extname(name) ==
    IF Len(name) >= 2 /\ name[Len(name)] \in ExtTokens
    THEN <<name[Len(name)]>>
    ELSE <<>>

\* index.js:289: Date.now() + '-' + Math.round(Math.random() * 1E9)
UniqueSuffix(t, rnd) == <<ToString(t), "-", ToString(rnd)>>

\* index.js:291
FileName(file, folder, t, rnd) ==
    IF folder # <<>>
    THEN folder \o Slash \o UniqueSuffix(t, rnd) \o Extname(file.originalname)
    ELSE UniqueSuffix(t, rnd) \o Extname(file.originalname)

Upsert_On == TRUE

\* index.js:297: upsert: false, an upload to an existing key fails
Upsert == FALSE

UploadOutcomes == {"ok", "bucket-not-found", "permission", "error"}

\* what supabase.storage.upload answers: the outcome drawn, but a key that is
\* already there is an error unless upsert is on
UploadAnswer(key, outcome, stored) ==
    IF key \in stored /\ ~Upsert /\ outcome = "ok" THEN "error" ELSE outcome

\* The whole function.  The result: completion "return" or "throw", the
\* upload call issued (none or one key), the key and the public URL returned,
\* and the message of the Error thrown.  stored is what the bucket holds when
\* the upload call arrives, t and rnd what Date.now() and Math.random() give.
uploadToSupabaseStorage(file, bkt, folder, t, rnd, outcome, stored) ==
    IF ~supabase
    THEN [completion |-> "throw", upload |-> <<>>, path |-> <<>>, publicUrl |-> <<>>,
          message |-> "Supabase is not configured"]
    ELSE LET fileName == FileName(file, folder, t, rnd)
             answer   == UploadAnswer(fileName, outcome, stored)
         IN  IF answer # "ok"
             THEN [completion |-> "throw", upload |-> <<fileName>>, path |-> <<>>,
                   publicUrl |-> <<>>,
                   message |-> CASE answer = "bucket-not-found" -> "Bucket not found"
                                 [] answer = "permission" -> "Permission denied"
                                 [] OTHER -> "Upload failed"]
             ELSE [completion |-> "return", upload |-> <<fileName>>, path |-> fileName,
                   publicUrl |-> PublicUrl(bkt, fileName), message |-> ""]

----------------------------------------------------------------------------
(* Values of the request variables *)

NoRequest == [op |-> "none"]
NoResponse == [status |-> 0]
NoStream == [open |-> FALSE]

StorageCall(op, keys) == [i \in 1..Len(keys) |-> [op |-> op, key |-> keys[i]]]

\* the keys handed to supabase.storage.remove by the request handled last
RemoveKeys ==
    LET hit == SelectSeq(calls, LAMBDA c : c.op = "storage.remove")
    IN  [i \in 1..Len(hit) |-> hit[i].key]

\* the keys handed to supabase.storage.upload by the request handled last
UploadKeys ==
    LET hit == SelectSeq(calls, LAMBDA c : c.op = "storage.upload")
    IN  [i \in 1..Len(hit) |-> hit[i].key]

----------------------------------------------------------------------------
(* SpecStorage: uploadToSupabaseStorage and deleteFromSupabaseStorage      *)
(* applied one after the other: an object is written, its public URL is    *)
(* handed out, and the URL comes back to be deleted                        *)

Folders == {<<>>, <<"images">>, <<"videos">>}

PlainFile(name) == [originalname |-> name, mimetype |-> <<"image", "/", "png">>, size |-> 1]

StorageFiles == {PlainFile(<<"photo", ".png">>), PlainFile(<<"noext">>)}

InitStorage ==
    /\ supabase \in BOOLEAN
    /\ isVercel = FALSE
    /\ bucket = {}
    /\ issued = {}
    /\ products = <<>>
    /\ banners = <<>>
    /\ fs = <<>>
    /\ req = NoRequest
    /\ res = NoResponse
    /\ calls = <<>>
    /\ stream = NoStream

ApplyUpload(file, folder, t, rnd, outcome) ==
    /\ Cardinality(bucket) < MaxObjects
    /\ LET r == uploadToSupabaseStorage(file, ProductsBucket, folder, t, rnd, outcome, bucket)
       IN  /\ req' = [op |-> "upload", filePath |-> <<>>, bucket |-> ProductsBucket,
                      folder |-> folder]
           /\ res' = [completion |-> r.completion, path |-> r.path,
                      publicUrl |-> r.publicUrl, log |-> r.message]
           /\ calls' = StorageCall("storage.upload", r.upload)
           /\ bucket' = IF r.completion = "return" THEN bucket \cup {r.path} ELSE bucket
           /\ issued' = IF r.completion = "return"
                        THEN issued \cup {[path |-> r.path, publicUrl |-> r.publicUrl]}
                        ELSE issued
    /\ UNCHANGED <<supabase, isVercel, products, banners, fs, stream>>

\* a reference whose object is gone is dropped by its holder
ApplyDelete(filePath, bkt, outcome) ==
    /\ LET r == deleteFromSupabaseStorage(filePath, bkt, outcome)
       IN  /\ req' = [op |-> "delete", filePath |-> filePath, bucket |-> bkt,
                      folder |-> <<>>]
           /\ res' = [completion |-> r.completion, path |-> <<>>, publicUrl |-> <<>>,
                      log |-> r.log]
           /\ calls' = StorageCall("storage.remove", r.remove)
           /\ bucket' = IF r.removed THEN bucket \ {r.remove[1]} ELSE bucket
           /\ issued' = IF r.removed
                        THEN {i \in issued : i.path # r.remove[1] /\ i.publicUrl # filePath}
                        ELSE issued
    /\ UNCHANGED <<supabase, isVercel, products, banners, fs, stream>>

NextStorage ==
    \/ \E file \in StorageFiles, folder \in Folders, t \in 0..MaxTime, rnd \in 0..MaxRand,
          outcome \in UploadOutcomes :
            ApplyUpload(file, folder, t, rnd, outcome)
    \/ \E i \in issued, outcome \in RemoveOutcomes :
            ApplyDelete(i.publicUrl, ProductsBucket, outcome)

SpecStorage == InitStorage /\ [][NextStorage]_vars

----------------------------------------------------------------------------
(* SpecNormalize: deleteFromSupabaseStorage applied to every recorded form *)
(* of a reference                                                          *)

\* keys of objects of the bucket
BareKeys ==
    { <<"a.png">>,
      <<"images", "/", "a.png">>,
      <<"videos", "/", "c d.mp4">>,
      <<"products", "/", "a.png">>,
      <<"images", "/", "products", "/", "a.png">> }

\* the forms in which the reference to the object k of bucket b is recorded
KeyForm(k, b) == k
SlashForm(k, b) == Slash \o k
BucketForm(k, b) == b \o Slash \o k
SlashBucketForm(k, b) == Slash \o b \o Slash \o k
UrlForm(k, b) == PublicUrl(b, k)

Forms(k, b) ==
    {KeyForm(k, b), SlashForm(k, b), BucketForm(k, b), SlashBucketForm(k, b), UrlForm(k, b)}

\* references that name no object
EmptyRefs ==
    { <<>>, <<" ">>, Slash, <<"/", " ">>,
      ProductsBucket \o Slash,
      Slash \o ProductsBucket \o Slash,
      PublicUrl(ProductsBucket, <<>>),
      PublicUrl(ProductsBucket, <<" ">>) }

OtherRefs ==
    { Https, Http, <<"https:", "/", "/", "?", "x">>,
      <<"https:", "/", "/", "cdn.example.com", "/", "a.png">>,
      <<"http:", "/", "/", "cdn.example.com", "/", "products", "/", "a.png", "?", "v=1">>,
      <<"https:", "/", "/", "cdn.example.com">>,
      PublicUrl(<<"banners">>, <<"a.png">>) }

Refs == UNION {Forms(k, ProductsBucket) : k \in BareKeys} \cup EmptyRefs \cup OtherRefs

InitNormalize ==
    /\ supabase \in BOOLEAN
    /\ isVercel = FALSE
    /\ bucket = BareKeys
    /\ issued = {}
    /\ products = <<>>
    /\ banners = <<>>
    /\ fs = <<>>
    /\ req = NoRequest
    /\ res = NoResponse
    /\ calls = <<>>
    /\ stream = NoStream

NextNormalize ==
    \E filePath \in Refs, outcome \in RemoveOutcomes :
        ApplyDelete(filePath, ProductsBucket, outcome)

SpecNormalize == InitNormalize /\ [][NextNormalize]_vars

----------------------------------------------------------------------------
(* SpecAsset: the two asset routes, index.js:104-218 *)

\* path.join(root, filename), for a filename of one path segment
PathJoin(root, filename) == root \o Slash \o filename

\* index.js:25
staticBaseDir ==
    IF isVercel THEN <<"__dirname", "/", "temp">> ELSE <<"__dirname", "/", "uploads">>

\* index.js:108-113: the candidate paths of a video, in the order they are tried
videoPaths(filename) ==
    (IF isVercel THEN << PathJoin(<<"/", "tmp", "/", "videos">>, filename) >> ELSE << >>)
        \o << PathJoin(staticBaseDir \o <<"/", "videos">>, filename) >>

\* index.js:174-179: the candidate paths of an image, in the order they are tried
imagePaths(filename) ==
    (IF isVercel THEN << PathJoin(<<"/", "tmp", "/", "products">>, filename) >> ELSE << >>)
        \o << PathJoin(staticBaseDir \o <<"/", "products">>, filename) >>

\* fs.existsSync
ExistsSync(path) == path \in DOMAIN fs

\* FirstExisting that takes the last existing candidate
FirstExisting_Last(paths) ==
    LET hits == {i \in 1..Len(paths) : ExistsSync(paths[i])}
    IN  IF hits = {} THEN <<>> ELSE paths[CHOOSE i \in hits : \A j \in hits : i >= j]

\* FirstExisting that falls back to the last candidate when none exists
FirstExisting_Fallback(paths) ==
    LET hits == {i \in 1..Len(paths) : ExistsSync(paths[i])}
    IN  IF hits = {} THEN paths[Len(paths)]
        ELSE paths[CHOOSE i \in hits : \A j \in hits : i <= j]

\* index.js:116-127 and 182-193: the first candidate that exists, null
\* (the empty path) when none does
FirstExisting(paths) ==
    LET hits == {i \in 1..Len(paths) : ExistsSync(paths[i])}
    IN  IF hits = {} THEN <<>> ELSE paths[CHOOSE i \in hits : \A j \in hits : i <= j]

MaxFileSize == 2    \* files hold 0..MaxFileSize bytes

\* the numbers a Range header may name: some lie past the end of every file
RangeNums == 0..(MaxFileSize + 1)

NaN == [nan |-> TRUE, v |-> 0]
Num(n) == [nan |-> FALSE, v |-> n]

\* parseInt(s, 10): the number the string begins with, NaN when it begins
\* with none
ParseInt(s) ==
    IF s # <<>> /\ \E n \in RangeNums : ToString(n) = s[1]
    THEN Num(CHOOSE n \in RangeNums : ToString(n) = s[1])
    ELSE NaN

\* index.js:140: range.replace(/bytes=/, '').split('-')
RangeParts0(range) == SplitFirst(ReplaceFirst(range, <<"bytes=">>), <<"-">>)

\* parts[1]: undefined (empty) when the header holds no '-'
RangeParts1(range) ==
    LET r == ReplaceFirst(range, <<"bytes=">>)
    IN  IF Includes(r, <<"-">>) THEN SplitSecond(r, <<"-">>) ELSE <<>>

\* index.js:141
RangeStart(range) == ParseInt(RangeParts0(range))

\* RangeEnd with the default one past the last byte
RangeEnd_PastEnd(range, fileSize) ==
    IF RangeParts1(range) # <<>> THEN ParseInt(RangeParts1(range)) ELSE Num(fileSize)

\* index.js:142
RangeEnd(range, fileSize) ==
    IF RangeParts1(range) # <<>> THEN ParseInt(RangeParts1(range)) ELSE Num(fileSize - 1)

\* HasRange that takes every request for a range request
HasRange_Always(range) == TRUE

\* index.js:138: if (range)
HasRange(range) == range # <<>>

\* fs.createReadStream(path, {start, end}) throws a RangeError when start or
\* end is no integer >= 0 or start > end
ReadStreamThrows(start, end) ==
    \/ start.nan \/ end.nan
    \/ start.v < 0 \/ end.v < 0
    \/ start.v > end.v

\* the stream reads the bytes first..last of the file: from start to end, or
\* to the end of the file when that comes first (none when first > last)
ReadStream(path, first, last) ==
    [open |-> TRUE, path |-> path, first |-> first,
     last |-> IF last < fs[path] - 1 THEN last ELSE fs[path] - 1]

NoHeaders == [contentRange |-> <<>>, acceptRanges |-> "", contentLength |-> -1,
              contentType |-> ""]

\* index.js:202-209
contentTypeMap(ext) ==
    CASE ext = <<".jpg">>  -> "image/jpeg"
      [] ext = <<".jpeg">> -> "image/jpeg"
      [] ext = <<".png">>  -> "image/png"
      [] ext = <<".gif">>  -> "image/gif"
      [] ext = <<".webp">> -> "image/webp"
      [] OTHER             -> "image/jpeg"

\* String.prototype.toLowerCase, on an extension
ToLowerCase(ext) == IF ext = <<".PNG">> THEN <<".png">> ELSE ext

VideoNames == {<<"clip", ".mp4">>, <<"gone", ".mp4">>}
ImageNames == {<<"a", ".png">>, <<"gone", ".PNG">>}

RangeHeader(s, e) == <<"bytes=", ToString(s), "-", ToString(e)>>
OpenRangeHeader(s) == <<"bytes=", ToString(s), "-">>

\* the Range headers of the requests; the empty one stands for no header
RangeHeaders ==
    {<<>>}
        \cup {RangeHeader(s, e) : s, e \in RangeNums}
        \cup {OpenRangeHeader(s) : s \in RangeNums}
        \cup {<<"bytes=", "-", ToString(e)>> : e \in RangeNums}
        \cup {<<"bytes=">>, <<"bytes=", "x", "-">>, <<"bytes=", ToString(0), "-", "x">>,
              <<"items=", ToString(0), "-", ToString(1)>>}

\* the files of the candidate directories: clip.mp4 and a.png, each present
\* or not in each directory
VideoDiskPaths ==
    {videoPaths(<<"clip", ".mp4">>)[i] : i \in 1..Len(videoPaths(<<"clip", ".mp4">>))}

ImageDiskPaths ==
    {imagePaths(<<"a", ".png">>)[i] : i \in 1..Len(imagePaths(<<"a", ".png">>))}

\* f, and g where f is not defined
Merge(f, g) ==
    [p \in DOMAIN f \cup DOMAIN g |-> IF p \in DOMAIN f THEN f[p] ELSE g[p]]

InitAsset ==
    /\ supabase = FALSE
    /\ isVercel \in BOOLEAN
    /\ bucket = {}
    /\ issued = {}
    /\ products = <<>>
    /\ banners = <<>>
    /\ \E videos \in SUBSET VideoDiskPaths, images \in SUBSET ImageDiskPaths :
          \E sizes \in [videos -> 0..MaxFileSize] :
              fs = Merge(sizes, [p \in images |-> MaxFileSize])
    /\ req = NoRequest
    /\ res = NoResponse
    /\ calls = <<>>
    /\ stream = NoStream

\* app.get('/uploads/videos/:filename'), index.js:104-166
GetVideo(filename, range) ==
    LET videoPath == FirstExisting(videoPaths(filename))
    IN  /\ req' = [op |-> "video", filename |-> filename, range |-> range]
        /\ IF videoPath = <<>>
           THEN /\ res' = [status |-> 404, error |-> "Video not found", next |-> FALSE,
                           headers |-> NoHeaders]
                /\ stream' = NoStream
           ELSE IF ~ExistsSync(videoPath)
           THEN \* fs.statSync throws
                /\ res' = [status |-> 500, error |-> "Error serving video", next |-> FALSE,
                           headers |-> NoHeaders]
                /\ stream' = NoStream
           ELSE LET fileSize == fs[videoPath]
                    start    == RangeStart(range)
                    end      == RangeEnd(range, fileSize)
                IN  IF HasRange(range)
                    THEN IF ReadStreamThrows(start, end)
                         THEN /\ res' = [status |-> 500, error |-> "Error serving video",
                                         next |-> FALSE, headers |-> NoHeaders]
                              /\ stream' = NoStream
                         ELSE /\ res' = [status |-> 206, error |-> "", next |-> FALSE,
                                         headers |->
                                            [contentRange |-> <<start.v, end.v, fileSize>>,
                                             acceptRanges |-> "bytes",
                                             contentLength |-> (end.v - start.v) + 1,
                                             contentType |-> "video/mp4"]]
                              /\ stream' = ReadStream(videoPath, start.v, end.v)
                    ELSE /\ res' = [status |-> 200, error |-> "", next |-> FALSE,
                                    headers |->
                                       [contentRange |-> <<>>, acceptRanges |-> "",
                                        contentLength |-> fileSize,
                                        contentType |-> "video/mp4"]]
                         /\ stream' = ReadStream(videoPath, 0, fileSize - 1)
        /\ UNCHANGED <<supabase, isVercel, bucket, issued, products, banners, fs, calls>>

\* app.get('/uploads/products/:filename'), index.js:170-218
GetImage(filename) ==
    LET imagePath == FirstExisting(imagePaths(filename))
    IN  /\ req' = [op |-> "image", filename |-> filename, range |-> <<>>]
        /\ IF imagePath = <<>>
           THEN \* next(): the request goes on to express.static
                /\ res' = [status |-> 0, error |-> "", next |-> TRUE, headers |-> NoHeaders]
                /\ stream' = NoStream
           ELSE IF ~ExistsSync(imagePath)
           THEN \* the stream emits 'error' and nothing handles it
                /\ res' = [status |-> 0, error |-> "unhandled stream error", next |-> FALSE,
                           headers |-> NoHeaders]
                /\ stream' = NoStream
           ELSE /\ res' = [status |-> 200, error |-> "", next |-> FALSE,
                           headers |->
                              [contentRange |-> <<>>, acceptRanges |-> "",
                               contentLength |-> -1,
                               contentType |->
                                  contentTypeMap(ToLowerCase(Extname(filename)))]]
                /\ stream' = ReadStream(imagePath, 0, fs[imagePath] - 1)
        /\ UNCHANGED <<supabase, isVercel, bucket, issued, products, banners, fs, calls>>

NextAsset ==
    \/ \E filename \in VideoNames, range \in RangeHeaders : GetVideo(filename, range)
    \/ \E filename \in ImageNames : GetImage(filename)

SpecAsset == InitAsset /\ [][NextAsset]_vars

----------------------------------------------------------------------------
(* SpecStream: what becomes of the stream a route piped into its response, *)
(* index.js:152, 160 and 212, one transfer at a time.  The routes attach   *)
(* no listener to the stream or to the response.                           *)

Transfers == {"video", "image"}

\* the file has been read to the end of the span: the stream ends, pipe ends
\* the response, and the stream closes itself (autoClose)
StreamEnd ==
    /\ stream.open
    /\ req.op \in Transfers
    /\ stream' = NoStream
    /\ req' = [op |-> "end", of |-> req.op]
    /\ UNCHANGED <<supabase, isVercel, bucket, issued, products, banners, fs, res, calls>>

\* a read fails: the stream closes itself (autoClose) and emits 'error'; no
\* listener takes it, so the event is thrown as an uncaught exception and
\* the process ends
StreamError ==
    /\ stream.open
    /\ req.op \in Transfers
    /\ stream' = NoStream
    /\ req' = [op |-> "crash", of |-> req.op]
    /\ UNCHANGED <<supabase, isVercel, bucket, issued, products, banners, fs, res, calls>>

\* the client goes away before the end: the response closes, pipe detaches
\* the stream from it (unpipe) and the stream, paused, stays open
ClientDisconnect ==
    /\ stream.open
    /\ req.op \in Transfers
    /\ stream' = stream
    /\ req' = [op |-> "aborted", of |-> req.op]
    /\ UNCHANGED <<supabase, isVercel, bucket, issued, products, banners, fs, res, calls>>

\* a request is taken when no stream is open and the process runs
NextStream ==
    \/ /\ ~stream.open
       /\ req.op # "crash"
       /\ NextAsset
    \/ StreamEnd
    \/ StreamError
    \/ ClientDisconnect

SpecStream == InitAsset /\ [][NextStream]_vars

----------------------------------------------------------------------------
(* Spec: the product and banner endpoints that write, index.js:548-658,    *)
(* 730-786, 840-877 and 921-961                                            *)

MaxProducts == 1    \* the products table holds at most this many rows
MaxId == 2          \* product ids run over prod-0 .. prod-MaxId

U1 == PublicUrl(ProductsBucket, <<"images", "/", "a.png">>)
U2 == PublicUrl(ProductsBucket, <<"images", "/", "b.png">>)
V1 == PublicUrl(ProductsBucket, <<"videos", "/", "c.mp4">>)
BadUrl == Https

ProdId(n) == <<"prod-", ToString(n)>>

\* index.js:566-568: id.match(/^prod-(\d+)$/) and parseInt(match[1], 10);
\* the empty set when the id does not match
ProdNum(id) ==
    IF Len(id) = 2 /\ id[1] = "prod-"
    THEN {n \in 0..MaxId : ToString(n) = id[2]}
    ELSE {}

\* index.js:564-573
maxNumber(ids) ==
    LET nums == UNION {ProdNum(id) : id \in ids} \cup {0}
    IN  CHOOSE n \in nums : \A m \in nums : n >= m

\* generateProductId that counts the rows
generateProductId_Count(lookup, t) ==
    IF supabase /\ lookup # "error" THEN Cardinality(DOMAIN products) + 1 ELSE t

\* index.js:548-590: lookup is what the select of the ids answers, t what
\* Date.now() gives; the result is the number N of the id prod-N
generateProductId(lookup, t) ==
    IF supabase
    THEN IF lookup = "error"
         THEN t
         ELSE IF DOMAIN products # {} /\ maxNumber(DOMAIN products) > 0
              THEN maxNumber(DOMAIN products) + 1
              ELSE 1
    ELSE t

\* the request bodies of POST /api/products: images is read only when
\* hasImages (the field is an array); a price of 0 stands for every falsy
\* value (0, '', undefined); rating and inStock are <<>> when the body does
\* not have the field and <<v>> when it has it with the value v
Body(name, image, hasImages, images, video) ==
    [name |-> name, originalPrice |-> 100, discountedPrice |-> 80, image |-> image,
     hasImages |-> hasImages, images |-> images, video |-> video,
     rating |-> <<>>, inStock |-> <<>>]

ProductBodies ==
    { Body("X", <<>>, FALSE, <<>>, <<>>),
      [Body("X", <<>>, TRUE, <<U1, U2>>, <<>>) EXCEPT !.rating = <<4>>, !.inStock = <<FALSE>>],
      Body("X", U1, TRUE, <<U1, BadUrl>>, V1),
      Body("", U1, FALSE, <<>>, <<>>) }

\* index.js:611
imageArray(body) ==
    IF body.hasImages THEN body.images
    ELSE IF body.image # <<>> THEN <<body.image>> ELSE <<>>

\* index.js:612
mainImage(body) ==
    IF body.image # <<>> THEN body.image
    ELSE IF Len(imageArray(body)) > 0 THEN imageArray(body)[1] ELSE <<>>

newProduct_OutOfStock(body) ==
    [image |-> mainImage(body), images |-> imageArray(body), video |-> body.video,
     rating |-> 0, inStock |-> FALSE]

\* index.js:614-633, the fields the claims read: rating ? parseFloat(rating) : 0
\* and inStock !== undefined ? inStock : true
newProduct(body) ==
    [image |-> mainImage(body), images |-> imageArray(body), video |-> body.video,
     rating |-> IF body.rating = <<>> \/ body.rating = <<0>> THEN 0 ELSE body.rating[1],
     inStock |-> IF body.inStock = <<>> THEN TRUE ELSE body.inStock[1]]

DbCall(op, id) == <<[op |-> op, key |-> id]>>

Response(status, text) == [status |-> status, text |-> text]

Invalid_Accepted(text) == [status |-> 200, text |-> text]

\* index.js:604 and 845: the answer to a body that fails the validation
Invalid(text) == Response(400, text)

\* index.js:648, 652: the 201 answer carries the product
Created(id, product, text) ==
    [status |-> 201, text |-> text, id |-> id, product |-> product]

DbOutcomes == {"ok", "error"}

\* app.post('/api/products'), index.js:593-658
CreateProduct(body, lookup, t, insert) ==
    /\ req' = [op |-> "createProduct", id |-> <<>>, body |-> body,
               lookup |-> lookup, insert |-> insert]
    /\ IF body.name = "" \/ body.originalPrice = 0 \/ body.discountedPrice = 0
       THEN /\ res' = Invalid("Name, originalPrice, and discountedPrice are required")
            /\ calls' = <<>>
            /\ products' = products
       ELSE LET n  == generateProductId(lookup, t)
                id == ProdId(n)
            IN  /\ n <= MaxId
                /\ IF supabase
                   THEN /\ (insert = "ok" /\ id \notin DOMAIN products)
                              => Cardinality(DOMAIN products) < MaxProducts
                        /\ calls' = DbCall("products.select", <<>>) \o DbCall("products.insert", id)
                        /\ IF insert = "error" \/ id \in DOMAIN products
                           THEN /\ res' = Response(500, "Failed to create product")
                                /\ products' = products
                           ELSE /\ res' = Created(id, newProduct(body),
                                                   "Product created successfully")
                                /\ products' =
                                      [p \in DOMAIN products \cup {id} |->
                                          IF p = id THEN newProduct(body) ELSE products[p]]
                   ELSE /\ res' = Created(id, newProduct(body),
                                           "Product created successfully (stored in memory)")
                        /\ calls' = <<>>
                        /\ products' = products
    /\ UNCHANGED <<supabase, isVercel, bucket, issued, banners, fs, stream>>

StorageRefs_ImagesOnly(product) == product.images

\* the references the product delete hands to deleteFromSupabaseStorage, in
\* the order of index.js:749-763: the main image, the images, the video
StorageRefs(product) ==
    (IF product.image # <<>> THEN <<product.image>> ELSE <<>>)
        \o product.images
        \o (IF product.video # <<>> THEN <<product.video>> ELSE <<>>)

\* the awaited calls of deleteFromSupabaseStorage for refs[i..], one after the
\* other; outs[i] is what the remove call of the i-th does.  The result: the
\* calls issued, the keys removed, and "throw" when a call threw (the later
\* ones are then not made).
RECURSIVE DeleteRefs(_, _, _)
DeleteRefs(refs, outs, i) ==
    IF i > Len(refs)
    THEN [completion |-> "return", calls |-> <<>>, removed |-> {}]
    ELSE LET r    == deleteFromSupabaseStorage(refs[i], ProductsBucket, outs[i])
             mine == <<[op |-> "deleteFromSupabaseStorage", key |-> refs[i]]>>
                        \o StorageCall("storage.remove", r.remove)
             gone == IF r.removed THEN {r.remove[1]} ELSE {}
         IN  IF r.completion = "throw"
             THEN [completion |-> "throw", calls |-> mine, removed |-> gone]
             ELSE LET rest == DeleteRefs(refs, outs, i + 1)
                  IN  [completion |-> rest.completion, calls |-> mine \o rest.calls,
                       removed |-> gone \cup rest.removed]

\* what the remove calls of one request do, call by call
RemoveOutcomeSeqs ==
    { <<"ok", "ok", "ok", "ok">>,
      <<"error", "error", "error", "error">>,
      <<"throw", "throw", "throw", "throw">>,
      <<"ok", "throw", "error", "ok">> }

\* app.delete('/api/products/:id'), index.js:730-786
DeleteProduct(id, fetch, outs, del) ==
    /\ req' = [op |-> "deleteProduct", id |-> id,
               body |-> [fetch |-> fetch, outs |-> outs, del |-> del]]
    /\ IF supabase
       THEN LET found == fetch = "ok" /\ id \in DOMAIN products
                d     == IF found THEN DeleteRefs(StorageRefs(products[id]), outs, 1)
                         ELSE [completion |-> "return", calls |-> <<>>, removed |-> {}]
            IN  /\ bucket' = bucket \ d.removed
                /\ IF d.completion = "throw"
                   THEN /\ calls' = DbCall("products.select", id) \o d.calls
                        /\ res' = Response(500, "Internal server error")
                        /\ products' = products
                   ELSE /\ calls' = DbCall("products.select", id) \o d.calls
                                       \o DbCall("products.delete", id)
                        /\ IF del = "error"
                           THEN /\ res' = Response(500, "Failed to delete product")
                                /\ products' = products
                           ELSE /\ res' = Response(200, "Product deleted successfully")
                                /\ products' = [p \in DOMAIN products \ {id} |-> products[p]]
       ELSE /\ res' = Response(200, "Product deleted successfully (from memory)")
            /\ calls' = <<>>
            /\ UNCHANGED <<bucket, products>>
    /\ UNCHANGED <<supabase, isVercel, issued, banners, fs, stream>>

\* the ids the database gives to banners
BannerIds == {<<"b1">>}

BannerUrls == {<<>>, U1, BadUrl}

\* app.post('/api/banners'), index.js:840-877
CreateBanner(image_url, insert) ==
    /\ req' = [op |-> "createBanner", id |-> <<>>, body |-> [image_url |-> image_url]]
    /\ IF image_url = <<>>
       THEN /\ res' = Invalid("Image URL is required")
            /\ calls' = <<>>
            /\ banners' = banners
       ELSE IF supabase
       THEN \E id \in BannerIds \ DOMAIN banners :
               /\ calls' = DbCall("banners.insert", <<>>)
               /\ IF insert = "error"
                  THEN /\ res' = Response(500, "Failed to create banner")
                       /\ banners' = banners
                  ELSE /\ res' = Response(201, "Banner created successfully")
                       /\ banners' =
                             [b \in DOMAIN banners \cup {id} |->
                                 IF b = id THEN [image_url |-> image_url] ELSE banners[b]]
       ELSE /\ res' = Response(201, "Banner created successfully (not saved)")
            /\ calls' = <<>>
            /\ banners' = banners
    /\ UNCHANGED <<supabase, isVercel, bucket, issued, products, fs, stream>>

\* app.delete('/api/banners/:id'), index.js:921-961
DeleteBanner(id, fetch, out, del) ==
    /\ req' = [op |-> "deleteBanner", id |-> id,
               body |-> [fetch |-> fetch, outs |-> <<out>>, del |-> del]]
    /\ IF supabase
       THEN LET found == fetch = "ok" /\ id \in DOMAIN banners
                d     == IF found /\ banners[id].image_url # <<>>
                         THEN DeleteRefs(<<banners[id].image_url>>, <<out>>, 1)
                         ELSE [completion |-> "return", calls |-> <<>>, removed |-> {}]
            IN  IF del = "error"
                THEN /\ calls' = DbCall("banners.select", id) \o DbCall("banners.delete", id)
                     /\ res' = Response(500, "Failed to delete banner")
                     /\ UNCHANGED <<banners, bucket>>
                ELSE /\ calls' = DbCall("banners.select", id) \o DbCall("banners.delete", id)
                                    \o d.calls
                     /\ banners' = [b \in DOMAIN banners \ {id} |-> banners[b]]
                     /\ bucket' = bucket \ d.removed
                     /\ res' = IF d.completion = "throw"
                               THEN Response(500, "Internal server error")
                               ELSE Response(200, "Banner deleted successfully")
       ELSE /\ res' = Response(200, "Banner deleted successfully (not saved)")
            /\ calls' = <<>>
            /\ UNCHANGED <<banners, bucket>>
    /\ UNCHANGED <<supabase, isVercel, issued, products, fs, stream>>

\* getMockProducts, index.js:966-1013: four products, prod-1 .. prod-4
getMockProducts ==
    [id \in {ProdId(n) : n \in 1..4} |->
        [mock |-> TRUE,
         name |-> CASE id = ProdId(1) -> "Magnesium Glycinate | Magnizen"
                    [] id = ProdId(2) -> "Vanur Men"
                    [] id = ProdId(3) -> "Vanur Women"
                    [] OTHER -> "Certeza BM-405 Digital Blood Pressure Monitor"]]

\* the answers of the reads
Listing(rows) == [status |-> 200, text |-> "", rows |-> rows]

One(id, product, text) == [status |-> 200, text |-> text, id |-> id, product |-> product]

\* app.get('/api/products'), index.js:480-503
GetProducts(fetch) ==
    /\ req' = [op |-> "getProducts", id |-> <<>>, body |-> [fetch |-> fetch]]
    /\ IF supabase
       THEN /\ calls' = DbCall("products.select", <<>>)
            /\ res' = IF fetch = "error" THEN Listing(getMockProducts) ELSE Listing(products)
       ELSE /\ calls' = <<>>
            /\ res' = Listing(getMockProducts)
    /\ UNCHANGED <<supabase, isVercel, bucket, issued, products, banners, fs, stream>>

\* getMockProducts().find(p => p.id === id) and the answer made of it,
\* index.js:520-524 and 534-538
MockAnswer(id) ==
    IF id \in DOMAIN getMockProducts
    THEN One(id, getMockProducts[id], "")
    ELSE Response(404, "Product not found")

\* what .single() answers when no row matches: an error (PGRST116), not a
\* null data
SingleMiss == "error"

\* app.get('/api/products/:id'), index.js:506-545
GetProduct(id, fetch) ==
    /\ req' = [op |-> "getProduct", id |-> id, body |-> [fetch |-> fetch]]
    /\ IF supabase
       THEN /\ calls' = DbCall("products.select", id)
            /\ res' = IF fetch = "error" \/ (id \notin DOMAIN products /\ SingleMiss = "error")
                      THEN MockAnswer(id)
                      ELSE IF id \notin DOMAIN products
                      THEN Response(404, "Product not found")
                      ELSE One(id, products[id], "")
       ELSE /\ calls' = <<>>
            /\ res' = MockAnswer(id)
    /\ UNCHANGED <<supabase, isVercel, bucket, issued, products, banners, fs, stream>>

\* the request bodies of PUT /api/products/:id: a field is <<>> when the
\* body does not have it and <<v>> when it has it with the value v
PutBody(image, images, video, rating, inStock) ==
    [image |-> image, images |-> images, video |-> video, rating |-> rating,
     inStock |-> inStock]

PutBodies ==
    { PutBody(<<>>, <<>>, <<>>, <<>>, <<>>),
      PutBody(<<>>, << <<U1, U2>> >>, << <<>> >>, <<4>>, <<FALSE>>),
      PutBody(<< <<>> >>, <<>>, << <<>> >>, <<0>>, <<TRUE>>) }

\* index.js:672-699: the fields of the update, over the row they are applied to
updateData(body, row) ==
    [image   |-> IF body.images # <<>>
                 THEN IF Len(body.images[1]) > 0 THEN body.images[1][1] ELSE <<>>
                 ELSE IF body.image # <<>> THEN body.image[1] ELSE row.image,
     images  |-> IF body.images # <<>> THEN body.images[1]
                 ELSE IF body.image # <<>>
                 THEN IF body.image[1] # <<>> THEN <<body.image[1]>> ELSE <<>>
                 ELSE row.images,
     video   |-> IF body.video # <<>> THEN body.video[1] ELSE row.video,
     rating  |-> IF body.rating # <<>> THEN body.rating[1] ELSE row.rating,
     inStock |-> IF body.inStock # <<>> THEN body.inStock[1] ELSE row.inStock]

\* app.put('/api/products/:id'), index.js:661-727
UpdateProduct(id, body, update) ==
    /\ req' = [op |-> "updateProduct", id |-> id, body |-> body, update |-> update]
    /\ IF supabase
       THEN /\ calls' = DbCall("products.update", id)
            /\ IF update = "error" \/ (id \notin DOMAIN products /\ SingleMiss = "error")
               THEN /\ res' = Response(500, "Failed to update product")
                    /\ products' = products
               ELSE IF id \notin DOMAIN products
               THEN /\ res' = Response(404, "Product not found")
                    /\ products' = products
               ELSE /\ res' = One(id, updateData(body, products[id]),
                                  "Product updated successfully")
                    /\ products' = [products EXCEPT ![id] = updateData(body, products[id])]
       ELSE /\ calls' = <<>>
            /\ res' = One(id, body, "Product updated successfully (in memory)")
            /\ products' = products
    /\ UNCHANGED <<supabase, isVercel, bucket, issued, banners, fs, stream>>

\* app.get('/api/banners'), index.js:791-812, and app.get('/api/banners/all'),
\* index.js:815-836: all is TRUE for the second
GetBanners(all, fetch) ==
    /\ req' = [op |-> IF all THEN "getBannersAll" ELSE "getBanners", id |-> <<>>,
               body |-> [fetch |-> fetch]]
    /\ IF supabase
       THEN /\ calls' = DbCall("banners.select", <<>>)
            /\ res' = IF fetch = "ok" THEN Listing(banners)
                      ELSE IF all THEN Response(500, "Failed to fetch banners")
                      ELSE Listing(<<>>)
       ELSE /\ calls' = <<>>
            /\ res' = Listing(<<>>)
    /\ UNCHANGED <<supabase, isVercel, bucket, issued, products, banners, fs, stream>>

\* the image_url of the bodies of PUT /api/banners/:id: not there, a URL, ''
BannerPutUrls == {<<>>, <<U1>>, << <<>> >>}

\* app.put('/api/banners/:id'), index.js:880-918
UpdateBanner(id, image_url, update) ==
    /\ req' = [op |-> "updateBanner", id |-> id, body |-> [image_url |-> image_url],
               update |-> update]
    /\ IF supabase
       THEN /\ calls' = DbCall("banners.update", id)
            /\ IF update = "error" \/ (id \notin DOMAIN banners /\ SingleMiss = "error")
               THEN /\ res' = Response(500, "Failed to update banner")
                    /\ banners' = banners
               ELSE IF id \notin DOMAIN banners
               THEN /\ res' = Response(404, "Banner not found")
                    /\ banners' = banners
               ELSE /\ res' = Response(200, "Banner updated successfully")
                    /\ banners' = IF image_url = <<>> THEN banners
                                  ELSE [banners EXCEPT ![id] = [image_url |-> image_url[1]]]
       ELSE /\ calls' = <<>>
            /\ res' = Response(200, "Banner updated successfully (not saved)")
            /\ banners' = banners
    /\ UNCHANGED <<supabase, isVercel, bucket, issued, products, fs, stream>>

Init ==
    /\ supabase \in BOOLEAN
    /\ isVercel = FALSE
    /\ bucket = {}
    /\ issued = {}
    /\ products = <<>>
    /\ banners = <<>>
    /\ fs = <<>>
    /\ req = NoRequest
    /\ res = NoResponse
    /\ calls = <<>>
    /\ stream = NoStream

\* the ids of the delete requests: those of the rows and one of no row
RequestIds == DOMAIN products \cup {ProdId(MaxId)}

\* the ids of the reads and updates: those too, and one that neither a row
\* nor a mock product has
ReadIds == RequestIds \cup {ProdId(0)}

Next ==
    \/ \E body \in ProductBodies, insert \in DbOutcomes :
          \/ CreateProduct(body, "ok", 0, insert)
          \/ \E t \in 0..MaxTime : CreateProduct(body, "error", t, insert)
    \/ \E id \in RequestIds, fetch \in DbOutcomes, outs \in RemoveOutcomeSeqs,
          del \in DbOutcomes :
            DeleteProduct(id, fetch, outs, del)
    \/ \E image_url \in BannerUrls, insert \in DbOutcomes : CreateBanner(image_url, insert)
    \/ \E id \in BannerIds, fetch \in DbOutcomes, out \in RemoveOutcomes,
          del \in DbOutcomes :
            DeleteBanner(id, fetch, out, del)

Spec == Init /\ [][Next]_vars

----------------------------------------------------------------------------
(* SpecProducts: every endpoint of the products, index.js:480-786 *)

NextProducts ==
    \/ \E body \in ProductBodies, insert \in DbOutcomes :
          \/ CreateProduct(body, "ok", 0, insert)
          \/ \E t \in 0..MaxTime : CreateProduct(body, "error", t, insert)
    \/ \E id \in RequestIds, fetch \in DbOutcomes, outs \in RemoveOutcomeSeqs,
          del \in DbOutcomes :
            DeleteProduct(id, fetch, outs, del)
    \/ \E fetch \in DbOutcomes : GetProducts(fetch)
    \/ \E id \in ReadIds, fetch \in DbOutcomes : GetProduct(id, fetch)
    \/ \E id \in ReadIds, body \in PutBodies, update \in DbOutcomes :
          UpdateProduct(id, body, update)

SpecProducts == Init /\ [][NextProducts]_vars

----------------------------------------------------------------------------
(* SpecBanners: every endpoint of the banners, index.js:791-961 *)

NextBanners ==
    \/ \E image_url \in BannerUrls, insert \in DbOutcomes : CreateBanner(image_url, insert)
    \/ \E id \in BannerIds, fetch \in DbOutcomes, out \in RemoveOutcomes,
          del \in DbOutcomes :
            DeleteBanner(id, fetch, out, del)
    \/ \E all \in BOOLEAN, fetch \in DbOutcomes : GetBanners(all, fetch)
    \/ \E id \in BannerIds, image_url \in BannerPutUrls, update \in DbOutcomes :
          UpdateBanner(id, image_url, update)

SpecBanners == Init /\ [][NextBanners]_vars


----------------------------------------------------------------------------
(* SpecUpload: the upload endpoints, index.js:45-80 and 397-477 *)

FileSizeLimit == 5 * 1024 * 1024
VideoSizeLimit == 50 * 1024 * 1024
MaxCount == 10

ImagePrefix == <<"image", "/">>
VideoPrefix == <<"video", "/">>

imageFileFilter_Any(file) == TRUE

\* index.js:45-52
imageFileFilter(file) == StartsWith(file.mimetype, ImagePrefix)

\* index.js:65-72
videoFileFilter(file) == StartsWith(file.mimetype, VideoPrefix)

\* What multer does with the files of the field, in the order they arrive:
\* the message of the error it passes on for the first file that is one too
\* many, that the filter refuses or that is longer than the limit, "" when
\* it takes them all.  pass[i] is the filter's answer for the i-th file.
Multer(files, pass, refusal, limit, maxCount) ==
    LET bad == {i \in 1..Len(files) : i > maxCount \/ ~pass[i] \/ files[i].size > limit}
    IN  IF bad = {} THEN ""
        ELSE LET i == CHOOSE j \in bad : \A k \in bad : j <= k
             IN  IF i > maxCount THEN "Unexpected field"
                 ELSE IF ~pass[i] THEN refusal
                 ELSE "File too large"

\* index.js:54-60
imageUpload(files, maxCount) ==
    Multer(files, [i \in 1..Len(files) |-> imageFileFilter(files[i])],
           "Only image files are allowed!", FileSizeLimit, maxCount)

\* index.js:74-80
videoUpload(files, maxCount) ==
    Multer(files, [i \in 1..Len(files) |-> videoFileFilter(files[i])],
           "Only video files are allowed!", VideoSizeLimit, maxCount)

\* the answers of the upload endpoints
Answer(status, error, details, urls) ==
    [status |-> status, error |-> error, details |-> details, urls |-> urls]

\* an error of a middleware with no error handler installed: the default
\* handler of express answers status 500
ExpressError(message) == Answer(500, "Internal Server Error", message, <<>>)

\* index.js:403-405, 429-431, 460-462
Unconfigured == Answer(500, "Supabase is not configured", "", <<>>)

UploadFile(name, mimetype, size) ==
    [originalname |-> name, mimetype |-> mimetype, size |-> size]

Png == <<"image", "/", "png">>
Pdf == <<"application", "/", "pdf">>
Mp4 == <<"video", "/", "mp4">>

SmallImage == UploadFile(<<"a", ".png">>, Png, 1)
LimitImage == UploadFile(<<"b", ".png">>, Png, FileSizeLimit)
LargeImage == UploadFile(<<"c", ".png">>, Png, FileSizeLimit + 1)
Document == UploadFile(<<"d", ".pdf">>, Pdf, 1)
SmallVideo == UploadFile(<<"e", ".mp4">>, Mp4, FileSizeLimit + 1)
LargeVideo == UploadFile(<<"f", ".mp4">>, Mp4, VideoSizeLimit + 1)

UploadFiles == {SmallImage, LimitImage, LargeImage, Document, SmallVideo, LargeVideo}

\* what Date.now() and Math.random() give to one upload
Suffixes == {<<0, 0>>, <<0, 1>>}

Stored(r, stored) == IF r.completion = "return" THEN stored \cup {r.path} ELSE stored

\* one single-file endpoint: app.post('/api/upload/image'), index.js:397-420,
\* and app.post('/api/upload/video'), index.js:454-477
UploadOne(op, files, reject, folder, noFile, failed, s, outcome) ==
    /\ req' = [op |-> op, files |-> files]
    /\ IF reject # ""
       THEN /\ res' = ExpressError(reject)
            /\ calls' = <<>>
            /\ bucket' = bucket
       ELSE IF files = <<>>
       THEN /\ res' = Answer(400, noFile, "", <<>>)
            /\ calls' = <<>>
            /\ bucket' = bucket
       ELSE IF ~supabase
       THEN /\ res' = Unconfigured
            /\ calls' = <<>>
            /\ bucket' = bucket
       ELSE LET r == uploadToSupabaseStorage(files[1], ProductsBucket, folder, s[1], s[2],
                                             outcome, bucket)
            IN  /\ calls' = StorageCall("storage.upload", r.upload)
                /\ bucket' = Stored(r, bucket)
                /\ Cardinality(bucket') <= MaxObjects
                /\ res' = IF r.completion = "throw"
                          THEN Answer(500, failed, r.message, <<>>)
                          ELSE Answer(200, "", "", <<r.publicUrl>>)
    /\ UNCHANGED <<supabase, isVercel, issued, products, banners, fs, stream>>

UploadImage(files, s, outcome) ==
    UploadOne("uploadImage", files, imageUpload(files, 1), <<"images">>,
              "No image file provided", "Error uploading image", s, outcome)

UploadVideo(files, s, outcome) ==
    UploadOne("uploadVideo", files, videoUpload(files, 1), <<"videos">>,
              "No video file provided", "Error uploading video", s, outcome)

\* index.js:434: the calls of uploadToSupabaseStorage for files[i..], every
\* one of them made; stored is what the bucket holds when the i-th arrives
RECURSIVE UploadAll(_, _, _, _, _)
UploadAll(files, ss, outs, i, stored) ==
    IF i > Len(files)
    THEN [results |-> <<>>, stored |-> stored]
    ELSE LET r    == uploadToSupabaseStorage(files[i], ProductsBucket, <<"images">>,
                                             ss[i][1], ss[i][2], outs[i], stored)
             rest == UploadAll(files, ss, outs, i + 1, Stored(r, stored))
         IN  [results |-> <<r>> \o rest.results, stored |-> rest.stored]

Rejected_None(results) == <<>>

\* index.js:435: Promise.all rejects with the error of a call that threw
Rejected(results) == SelectSeq(results, LAMBDA r : r.completion = "throw")

\* app.post('/api/upload/images'), index.js:423-451
UploadImages(files, ss, outs) ==
    /\ req' = [op |-> "uploadImages", files |-> files]
    /\ IF imageUpload(files, MaxCount) # ""
       THEN /\ res' = ExpressError(imageUpload(files, MaxCount))
            /\ calls' = <<>>
            /\ bucket' = bucket
       ELSE IF Len(files) = 0
       THEN /\ res' = Answer(400, "No image files provided", "", <<>>)
            /\ calls' = <<>>
            /\ bucket' = bucket
       ELSE IF ~supabase
       THEN /\ res' = Unconfigured
            /\ calls' = <<>>
            /\ bucket' = bucket
       ELSE LET all == UploadAll(files, ss, outs, 1, bucket)
                n   == Len(all.results)
            IN  /\ calls' = [i \in 1..n |->
                                [op |-> "storage.upload", key |-> all.results[i].upload[1]]]
                /\ bucket' = all.stored
                /\ Cardinality(bucket') <= MaxObjects
                /\ res' = IF Rejected(all.results) # <<>>
                          THEN Answer(500, "Error uploading images",
                                      Rejected(all.results)[1].message, <<>>)
                          ELSE Answer(200, "", "", [i \in 1..n |-> all.results[i].publicUrl])
    /\ UNCHANGED <<supabase, isVercel, issued, products, banners, fs, stream>>

InitUpload ==
    /\ supabase \in BOOLEAN
    /\ isVercel = FALSE
    /\ bucket = {}
    /\ issued = {}
    /\ products = <<>>
    /\ banners = <<>>
    /\ fs = <<>>
    /\ req = NoRequest
    /\ res = NoResponse
    /\ calls = <<>>
    /\ stream = NoStream

\* the requests of the single-file endpoints: no file or one
SingleFiles == {<<>>} \cup {<<f>> : f \in UploadFiles}

BatchFiles == {SmallImage, LimitImage, LargeImage, Document}

\* the requests of the batch endpoint: up to two files, and (TooMany) one
\* file more than the field takes
Batches ==
    {<<>>} \cup {<<f>> : f \in BatchFiles} \cup {<<f, g>> : f, g \in BatchFiles}

TooMany == [i \in 1..(MaxCount + 1) |-> SmallImage]

BatchOutcomes == {"ok", "error"}

NextUpload ==
    \/ \E files \in SingleFiles, s \in Suffixes, outcome \in UploadOutcomes :
          UploadImage(files, s, outcome)
    \/ \E files \in SingleFiles, s \in Suffixes, outcome \in UploadOutcomes :
          UploadVideo(files, s, outcome)
    \/ \E files \in Batches :
          \E ss \in [1..Len(files) -> Suffixes], outs \in [1..Len(files) -> BatchOutcomes] :
             UploadImages(files, ss, outs)
    \/ \E s \in Suffixes, outcome \in BatchOutcomes :
          UploadImages(TooMany, [i \in 1..Len(TooMany) |-> s], [i \in 1..Len(TooMany) |-> outcome])

SpecUpload == InitUpload /\ [][NextUpload]_vars

----------------------------------------------------------------------------
(* SpecMock: the endpoints of the products, of the banners and of the      *)
(* uploads when the client is not configured, index.js:88-95               *)

InitMock == Init /\ ~supabase

NextMock == NextProducts \/ NextBanners \/ NextUpload

SpecMock == InitMock /\ [][NextMock]_vars

----------------------------------------------------------------------------
(* SpecRace: two POST /api/products requests in flight at once, the        *)
(* database configured.  The handler awaits twice, at generateProductId    *)
(* (index.js:608) and at the insert (index.js:635), so each request takes  *)
(* two steps and the steps of the two interleave in any order.  req holds, *)
(* for each request, where it stands, its body, the number of the id it    *)
(* was given and what its insert answered; res holds the two responses.    *)

Posts == 1..2

RaceBodies == {Body("X", <<>>, FALSE, <<>>, <<>>), Body("", U1, FALSE, <<>>, <<>>)}

NoPosts ==
    [op |-> "posts",
     pc |-> [r \in Posts |-> "start"],
     body |-> [r \in Posts |-> Body("", <<>>, FALSE, <<>>, <<>>)],
     n |-> [r \in Posts |-> 0],
     insert |-> [r \in Posts |-> ""]]

InitRace ==
    /\ supabase = TRUE
    /\ isVercel = FALSE
    /\ bucket = {}
    /\ issued = {}
    /\ products = <<>>
    /\ banners = <<>>
    /\ fs = <<>>
    /\ req = NoPosts
    /\ res = [r \in Posts |-> NoResponse]
    /\ calls = <<>>
    /\ stream = NoStream

\* index.js:593-608: request r arrives, its body is validated, and
\* generateProductId reads the stored ids and makes its id
AssignId(r, body, lookup, t) ==
    /\ req.op = "posts"
    /\ req.pc[r] = "start"
    /\ IF body.name = "" \/ body.originalPrice = 0 \/ body.discountedPrice = 0
       THEN /\ req' = [req EXCEPT !.pc[r] = "done", !.body[r] = body]
            /\ res' = [res EXCEPT
                          ![r] = Invalid("Name, originalPrice, and discountedPrice are required")]
            /\ calls' = calls
       ELSE /\ generateProductId(lookup, t) <= MaxId
            /\ req' = [req EXCEPT !.pc[r] = "insert", !.body[r] = body,
                                  !.n[r] = generateProductId(lookup, t)]
            /\ res' = res
            /\ calls' = calls \o DbCall("products.select", <<>>)
    /\ UNCHANGED <<supabase, isVercel, bucket, issued, products, banners, fs, stream>>

\* index.js:611-648: request r inserts its row; id is the primary key of the
\* table (setup.sql), so the insert of a stored id is an error
InsertProduct(r, insert) ==
    /\ req.op = "posts"
    /\ req.pc[r] = "insert"
    /\ LET id == ProdId(req.n[r])
       IN  /\ (insert = "ok" /\ id \notin DOMAIN products)
                 => Cardinality(DOMAIN products) < MaxProducts
           /\ req' = [req EXCEPT !.pc[r] = "done", !.insert[r] = insert]
           /\ calls' = calls \o DbCall("products.insert", id)
           /\ IF insert = "error" \/ id \in DOMAIN products
              THEN /\ res' = [res EXCEPT ![r] = Response(500, "Failed to create product")]
                   /\ products' = products
              ELSE /\ res' = [res EXCEPT
                                 ![r] = Created(id, newProduct(req.body[r]),
                                                "Product created successfully")]
                   /\ products' =
                         [p \in DOMAIN products \cup {id} |->
                             IF p = id THEN newProduct(req.body[r]) ELSE products[p]]
    /\ UNCHANGED <<supabase, isVercel, bucket, issued, banners, fs, stream>>

\* both requests are answered: the next two arrive
NextPosts ==
    /\ req.op = "posts"
    /\ \A r \in Posts : req.pc[r] = "done"
    /\ req' = NoPosts
    /\ res' = [r \in Posts |-> NoResponse]
    /\ calls' = <<>>
    /\ UNCHANGED <<supabase, isVercel, bucket, issued, products, banners, fs, stream>>

NextRace ==
    \/ \E r \in Posts, body \in RaceBodies, lookup \in DbOutcomes, t \in 0..MaxTime :
          AssignId(r, body, lookup, t)
    \/ \E r \in Posts, insert \in DbOutcomes : InsertProduct(r, insert)
    \/ NextPosts

SpecRace == InitRace /\ [][NextRace]_vars

----------------------------------------------------------------------------
(* SpecIds: generateProductId, index.js:548-590, applied to the tables the *)
(* database may hold.  id is a TEXT column (setup.sql:5) and rows are also *)
(* inserted by hand (setup.sql:26-30), so a table may hold ids of any form *)

\* ids that /^prod-(\d+)$/ does not match
OtherIds == {<<"item-", "1">>, <<"prod-", "x">>, <<"prod-", "1", "a">>}

StoredIds == {ProdId(n) : n \in 0..MaxId} \cup OtherIds

InitIds ==
    /\ supabase = TRUE
    /\ isVercel = FALSE
    /\ bucket = {}
    /\ issued = {}
    /\ \E ids \in SUBSET StoredIds :
          products = [id \in ids |-> newProduct(Body("X", <<>>, FALSE, <<>>, <<>>))]
    /\ banners = <<>>
    /\ fs = <<>>
    /\ req = NoRequest
    /\ res = NoResponse
    /\ calls = <<>>
    /\ stream = NoStream

\* one call of generateProductId
GenerateId(lookup, t) ==
    /\ req' = [op |-> "generateProductId", lookup |-> lookup, t |-> t]
    /\ res' = [status |-> 0, id |-> ProdId(generateProductId(lookup, t))]
    /\ calls' = DbCall("products.select", <<>>)
    /\ UNCHANGED <<supabase, isVercel, bucket, issued, products, banners, fs, stream>>

NextIds == \E lookup \in DbOutcomes, t \in 0..MaxTime : GenerateId(lookup, t)

SpecIds == InitIds /\ [][NextIds]_vars

----------------------------------------------------------------------------
(* Claims about the storage references *)

\* C2: round trip of a storage reference.  For every result {path, publicUrl}
\* that uploadToSupabaseStorage has returned for bucket 'products', a call of
\* deleteFromSupabaseStorage with that public URL and that bucket hands
\* supabase.storage.remove exactly the key the upload generated.
C2_RoundTrip ==
    [][\A i \in issued :
          (req'.op = "delete" /\ req'.filePath = i.publicUrl /\ req'.bucket = ProductsBucket)
              => RemoveKeys' = <<i.path>>]_vars

\* a stored object with a folder prefix was removed through its public URL
C2_Witness ==
    /\ req.op = "delete"
    /\ Includes(req.filePath, PublicMarker)
    /\ Len(RemoveKeys) = 1
    /\ StartsWith(RemoveKeys[1], <<"images", "/">>)
    /\ res.log = "deleted"
    /\ RemoveKeys[1] \notin bucket

C5_NoRemoveForEmptyKey ==
    (req.op = "delete" /\ (~supabase \/ req.filePath \in EmptyRefs)) =>
        /\ calls = <<>>
        /\ res.completion = "return"
        /\ res.log \in {"none", "empty-path"}

\* the public URL of the bucket root followed by a blank was skipped
C5_Witness ==
    /\ req.op = "delete"
    /\ supabase
    /\ req.filePath = PublicUrl(ProductsBucket, <<" ">>)
    /\ calls = <<>>
    /\ res.log = "empty-path"

----------------------------------------------------------------------------
(* Claims about the asset routes *)

\* the candidate paths of the request handled last
Candidates ==
    IF req.op = "video" THEN videoPaths(req.filename) ELSE imagePaths(req.filename)

FileExists == \E i \in 1..Len(Candidates) : Candidates[i] \in DOMAIN fs

\* the first candidate, in list order, that is a file on disk
FirstHit ==
    Candidates[CHOOSE i \in 1..Len(Candidates) :
                  /\ Candidates[i] \in DOMAIN fs
                  /\ \A j \in 1..(i - 1) : Candidates[j] \notin DOMAIN fs]

\* the response is 206 for the bytes s..e of the file at path
PartialContent(path, s, e) ==
    /\ res.status = 206
    /\ res.headers.contentRange = <<s, e, fs[path]>>
    /\ res.headers.acceptRanges = "bytes"
    /\ res.headers.contentLength = e - s + 1
    /\ stream = [open |-> TRUE, path |-> path, first |-> s, last |-> e]

\* C6 as stated: for an existing file, every header Range: bytes=<start>-<end>
\* (end optional, fileSize - 1 by default) is answered 206 with
\* Content-Range 'bytes start-end/fileSize', Accept-Ranges 'bytes',
\* Content-Length end - start + 1, and exactly the bytes start..end.
C6_EveryRange ==
    (req.op = "video" /\ FileExists) =>
        \A s \in RangeNums :
            /\ \A e \in RangeNums :
                  req.range = RangeHeader(s, e) => PartialContent(FirstHit, s, e)
            /\ req.range = OpenRangeHeader(s)
                  => PartialContent(FirstHit, s, fs[FirstHit] - 1)

\* C6, amended: the same for the headers whose span lies inside the file,
\* 0 <= start <= end <= fileSize - 1.
C6_RangeInsideFile ==
    (req.op = "video" /\ FileExists) =>
        \A s \in RangeNums :
            /\ \A e \in RangeNums :
                  (req.range = RangeHeader(s, e) /\ s <= e /\ e <= fs[FirstHit] - 1)
                      => PartialContent(FirstHit, s, e)
            /\ (req.range = OpenRangeHeader(s) /\ s <= fs[FirstHit] - 1)
                  => PartialContent(FirstHit, s, fs[FirstHit] - 1)

\* the last byte of a two-byte file was served for 'bytes=1-'
C6_Witness ==
    /\ req.op = "video"
    /\ req.range = OpenRangeHeader(1)
    /\ res.status = 206
    /\ res.headers.contentRange = <<1, 1, 2>>
    /\ stream.open /\ stream.first = 1 /\ stream.last = 1

\* C7: for an existing file and no Range header the video route answers 200
\* (never 206) with Content-Length = file size and streams the whole file.
C7_FullFile ==
    (req.op = "video" /\ FileExists /\ req.range = <<>>) =>
        /\ res.status = 200
        /\ res.headers.contentLength = fs[FirstHit]
        /\ stream = [open |-> TRUE, path |-> FirstHit, first |-> 0,
                     last |-> fs[FirstHit] - 1]

\* a two-byte video was served whole
C7_Witness ==
    /\ req.op = "video"
    /\ req.range = <<>>
    /\ res.status = 200
    /\ res.headers.contentLength = 2
    /\ stream.open /\ stream.first = 0 /\ stream.last = 1

\* C8: both asset routes serve the file from the first candidate root, in
\* list order, in which it exists: the route never answers not-found, every
\* stream it opens reads that candidate, and a request without a Range header
\* is answered 200 with that stream (the only error left is the video
\* route's 500 for a Range header the stream rejects).
C8_FirstExistingCandidate ==
    (req.op \in {"video", "image"} /\ FileExists) =>
        /\ res.status # 404 /\ ~res.next
        /\ stream.open => stream.path = FirstHit
        /\ req.range = <<>> => (res.status = 200 /\ stream.open)

\* a video that exists only in the second root was served from there
C8_Witness ==
    /\ req.op = "video"
    /\ Len(Candidates) = 2
    /\ Candidates[1] \notin DOMAIN fs
    /\ Candidates[2] \in DOMAIN fs
    /\ res.status = 200
    /\ stream.open /\ stream.path = Candidates[2]

\* C9: when the file exists in no candidate root, the video route answers 404
\* {error: 'Video not found'} and opens no stream; the image route writes no
\* response, opens no stream and calls next().
C9_NotFound ==
    (req.op \in {"video", "image"} /\ ~FileExists) =>
        /\ ~stream.open
        /\ req.op = "video" =>
              (res.status = 404 /\ res.error = "Video not found" /\ ~res.next)
        /\ req.op = "image" => (res.status = 0 /\ res.error = "" /\ res.next)

\* an image found in neither of two roots was passed on
C9_Witness ==
    /\ req.op = "image"
    /\ Len(Candidates) = 2
    /\ ~FileExists
    /\ res.next
    /\ res.status = 0
----------------------------------------------------------------------------
(* Claims about the delete cascade *)

\* the references handed to deleteFromSupabaseStorage by the request handled
\* last, in the order of the calls
Invocations(cs) ==
    LET hit == SelectSeq(cs, LAMBDA c : c.op = "deleteFromSupabaseStorage")
    IN  [i \in 1..Len(hit) |-> hit[i].key]

DbDeletes(cs) == SelectSeq(cs, LAMBDA c : c.op = "products.delete")

OneOrNone(ref) == IF ref # <<>> THEN <<ref>> ELSE <<>>

\* C1 as stated: a product delete with the database configured, for a stored
\* product whose images field lists n URLs, issues exactly n storage-delete
\* calls, all before exactly one database delete call.
C1_ExactlyN ==
    [][(req'.op = "deleteProduct" /\ supabase /\ req'.id \in DOMAIN products)
          => /\ Len(Invocations(calls')) = Len(products[req'.id].images)
             /\ Len(DbDeletes(calls')) = 1
             /\ calls'[Len(calls')].op = "products.delete"]_vars

\* C1, amended: a product delete with the database configured invokes the
\* storage delete, when the lookup returned the product, once for its
\* non-empty image, then once per URL of its images, then once for its
\* non-empty video, and not at all when the lookup returned nothing; exactly
\* one database delete call follows, as the last call of the request,
\* whatever the storage deletes did.
C1_Cascade ==
    [][(req'.op = "deleteProduct" /\ supabase)
          => /\ Invocations(calls') =
                   IF req'.body.fetch = "ok" /\ req'.id \in DOMAIN products
                   THEN OneOrNone(products[req'.id].image)
                           \o products[req'.id].images
                           \o OneOrNone(products[req'.id].video)
                   ELSE <<>>
             /\ Len(DbDeletes(calls')) = 1
             /\ calls'[Len(calls')] = [op |-> "products.delete", key |-> req'.id]]_vars

\* a product with two listed images, a main image and a video has been
\* deleted: four storage deletes, one of them failing, then the database delete
C1_Witness ==
    /\ req.op = "deleteProduct"
    /\ supabase
    /\ Invocations(calls) = <<U1, U1, BadUrl, V1>>
    /\ req.body.outs[1] = "error"
    /\ Len(DbDeletes(calls)) = 1
    /\ res.status = 200

\* C3: whatever the storage deletes of a product or banner delete do (the
\* remove call answers an error or throws, the URL does not parse), the
\* response and the change of the table are those the database delete alone
\* decides.
C3_BestEffort ==
    [][(supabase /\ req'.op \in {"deleteProduct", "deleteBanner"})
          => /\ res'.status = IF req'.body.del = "ok" THEN 200 ELSE 500
             /\ req'.op = "deleteProduct" =>
                   /\ DOMAIN products' =
                         IF req'.body.del = "ok" THEN DOMAIN products \ {req'.id}
                         ELSE DOMAIN products
                   /\ \A p \in DOMAIN products' : products'[p] = products[p]
             /\ req'.op = "deleteBanner" =>
                   /\ DOMAIN banners' =
                         IF req'.body.del = "ok" THEN DOMAIN banners \ {req'.id}
                         ELSE DOMAIN banners
                   /\ \A b \in DOMAIN banners' : banners'[b] = banners[b]]_vars

\* a product delete answered 200 although one remove call threw, one answered
\* an error and one URL did not parse
C3_Witness ==
    /\ req.op = "deleteProduct"
    /\ supabase
    /\ req.body.outs = <<"ok", "throw", "error", "ok">>
    /\ Invocations(calls) = <<U1, U1, BadUrl, V1>>
    /\ Len(RemoveKeys) = 3
    /\ req.body.del = "ok"
    /\ res.status = 200
    /\ req.id \notin DOMAIN products

----------------------------------------------------------------------------
(* Claims about the upload endpoints *)

ValidImage(file) == StartsWith(file.mimetype, <<"image", "/">>) /\ file.size <= 5 * 1024 * 1024

\* C10: an image upload of files that are all of an image/* type and at most
\* 5 MiB long is forwarded to storage, one upload call per file; an upload
\* with a file that is longer or of another type is answered with a
\* validation error (status 400) and no upload call is made, for the single
\* file as for the batch.
C10_Validation ==
    req.op \in {"uploadImage", "uploadImages"} /\ Len(req.files) \in 1..2
        => IF \A i \in 1..Len(req.files) : ValidImage(req.files[i])
           THEN Len(UploadKeys) = Len(req.files)
           ELSE res.status = 400 /\ Len(UploadKeys) = 0

\* a batch of a valid image and a document has been refused: no upload call,
\* and the answer is the 500 of the default error handler
C10_Witness ==
    /\ req.op = "uploadImages"
    /\ supabase
    /\ req.files = <<SmallImage, Document>>
    /\ UploadKeys = <<>>
    /\ res.status = 500
    /\ res.details = "Only image files are allowed!"

\* C11: the batch endpoint, when the files pass multer and the storage
\* client is configured, issues one upload call per file; it answers 200,
\* listing every file, exactly when every one of the writes landed, and
\* otherwise 500 with the message of a failed write and no list.
C11_AllOrError ==
    [][(req'.op = "uploadImages" /\ supabase /\ Len(req'.files) > 0
          /\ imageUpload(req'.files, 10) = "")
          => /\ Len(UploadKeys') = Len(req'.files)
             /\ res'.status \in {200, 500}
             /\ res'.status = 200 <=> Cardinality(bucket' \ bucket) = Len(req'.files)
             /\ res'.status = 200 =>
                   /\ Len(res'.urls) = Len(req'.files)
                   /\ \A i \in 1..Len(res'.urls) :
                         res'.urls[i] = PublicUrl(ProductsBucket, UploadKeys'[i])
             /\ res'.status = 500 =>
                   /\ res'.urls = <<>>
                   /\ res'.error = "Error uploading images"
                   /\ res'.details = "Upload failed"]_vars

\* a batch of two files of which the first was written and the second was
\* not: the answer is 500
C11_Witness ==
    /\ req.op = "uploadImages"
    /\ Len(req.files) = 2
    /\ Len(UploadKeys) = 2
    /\ UploadKeys[1] \in bucket
    /\ UploadKeys[2] \notin bucket
    /\ res.status = 500
    /\ res.details = "Upload failed"

----------------------------------------------------------------------------
(* Claims about the creation of products *)

\* prod-<N>, N a decimal number
IsProdN(id) ==
    /\ Len(id) = 2
    /\ id[1] = "prod-"
    /\ \E n \in 0..(MaxId + MaxTime + 1) : id[2] = ToString(n)

\* a body with the three required fields and neither rating nor inStock
PlainBody(body) ==
    /\ body.name # ""
    /\ body.originalPrice # 0
    /\ body.discountedPrice # 0
    /\ body.rating = <<>>
    /\ body.inStock = <<>>

----------------------------------------------------------------------------
(* Claims about the unconfigured client *)

ProductReads == {"getProducts", "getProduct"}

Writes ==
    {"createProduct", "updateProduct", "deleteProduct", "createBanner", "updateBanner",
     "deleteBanner"}

\* what the reads answer from the mock dataset: all of it, or the product of
\* the id asked for (404 when it has none)
FromMock ==
    /\ req.op = "getProducts" => res.status = 200 /\ res.rows = getMockProducts
    /\ req.op = "getProduct" =>
          IF \E n \in 1..4 : req.id = ProdId(n)
          THEN res.status = 200 /\ res.product = getMockProducts[req.id]
          ELSE res.status = 404

\* C13 as stated: with the client unconfigured the product reads answer from
\* the mock dataset, every product or banner write is answered with success,
\* none of them makes a database or storage call or is answered 5xx.
C13_EveryWriteSucceeds ==
    (~supabase /\ req.op \in ProductReads \cup Writes)
        => /\ calls = <<>>
           /\ res.status < 500
           /\ FromMock
           /\ req.op \in Writes => res.status \in {200, 201}

\* C13, amended: the same, but a POST whose body fails the validation (no
\* name or price for a product, no image_url for a banner) is answered 400.
C13_Degrades ==
    (~supabase /\ req.op \in ProductReads \cup Writes)
        => /\ calls = <<>>
           /\ res.status < 500
           /\ FromMock
           /\ req.op \in Writes =>
                 IF \/ req.op = "createProduct" /\ ~(/\ req.body.name # ""
                                                     /\ req.body.originalPrice # 0
                                                     /\ req.body.discountedPrice # 0)
                    \/ req.op = "createBanner" /\ req.body.image_url = <<>>
                 THEN res.status = 400
                 ELSE res.status \in {200, 201}
           /\ products = <<>>
           /\ banners = <<>>

\* a product has been created with the client unconfigured: 201, no call
C13_Witness ==
    /\ ~supabase
    /\ req.op = "createProduct"
    /\ res.status = 201
    /\ IsProdN(res.id)
    /\ calls = <<>>
    /\ products = <<>>

----------------------------------------------------------------------------
(* Claims about the reads and updates of products *)

\* C14: with the database configured and answering, a GET or PUT of
\* /api/products/:id for an id that no row has is answered 404 and leaves
\* the table as it was.
C14_NotFound ==
    [][(/\ supabase
        /\ \/ req'.op = "getProduct" /\ req'.body.fetch = "ok"
           \/ req'.op = "updateProduct" /\ req'.update = "ok"
        /\ req'.id \notin DOMAIN products)
          => res'.status = 404 /\ products' = products]_vars

\* a PUT for an id that no row has, the database answering: 500
C14_Witness ==
    /\ supabase
    /\ req.op = "updateProduct"
    /\ req.update = "ok"
    /\ req.id \notin DOMAIN products
    /\ calls = DbCall("products.update", req.id)
    /\ res.status = 500

\* a GET for an id that no row has but a mock product has, the database
\* answering: 200 with the mock product
C14_WitnessMock ==
    /\ supabase
    /\ req.op = "getProduct"
    /\ req.body.fetch = "ok"
    /\ req.id \notin DOMAIN products
    /\ res.status = 200
    /\ res.product = getMockProducts[req.id]

----------------------------------------------------------------------------
(* Claims about the release of the streams *)

\* C15: a stream that is open feeds a transfer in progress: once the transfer
\* is over (the file was sent, a read failed, the client went away) no stream
\* stays open.
C15_Released == stream.open => req.op \in Transfers

\* the client went away during a transfer and the stream is still open
C15_Witness ==
    /\ req.op = "aborted"
    /\ req.of = "video"
    /\ stream.open
    /\ ~ENABLED StreamEnd
    /\ res.status = 206

----------------------------------------------------------------------------
(* Claims about the deletion of banners *)

\* what a banner delete does when its database delete fails: 500, no storage
\* delete, the row stays
BannerDeleteFailed ==
    /\ res'.status = 500
    /\ Invocations(calls') = <<>>
    /\ RemoveKeys' = <<>>
    /\ banners' = banners

\* the storage delete of a banner delete, made for ref after the database
\* delete
StorageDeleteAfter(ref) ==
    /\ Invocations(calls') = <<ref>>
    /\ calls'[2] = [op |-> "banners.delete", key |-> req'.id]
    /\ calls'[3] = [op |-> "deleteFromSupabaseStorage", key |-> ref]

\* C16 as stated: a banner delete with the database configured answers 500
\* and makes no storage delete when the database delete fails; when it
\* succeeds it answers success and makes exactly one storage delete, after
\* the database delete, for a banner with a non-empty image_url.
C16_OnePerBanner ==
    [][(req'.op = "deleteBanner" /\ supabase)
          => IF req'.body.del = "error"
             THEN BannerDeleteFailed
             ELSE /\ res'.status = 200
                  /\ (req'.id \in DOMAIN banners /\ banners[req'.id].image_url # <<>>)
                        => StorageDeleteAfter(banners[req'.id].image_url)]_vars

\* C16, amended: the same, but the storage delete is made only when the
\* lookup before the database delete returned the banner; when it returned
\* nothing, or the image_url is empty, no storage delete is made.
C16_AfterDelete ==
    [][(req'.op = "deleteBanner" /\ supabase)
          => IF req'.body.del = "error"
             THEN BannerDeleteFailed
             ELSE /\ res'.status = 200
                  /\ req'.id \notin DOMAIN banners'
                  /\ IF /\ req'.body.fetch = "ok"
                        /\ req'.id \in DOMAIN banners
                        /\ banners[req'.id].image_url # <<>>
                     THEN StorageDeleteAfter(banners[req'.id].image_url)
                     ELSE Invocations(calls') = <<>>]_vars

\* a banner has been deleted and the remove call of its image failed
C16_Witness ==
    /\ req.op = "deleteBanner"
    /\ supabase
    /\ req.body.del = "ok"
    /\ req.body.outs = <<"throw">>
    /\ Invocations(calls) = <<U1>>
    /\ RemoveKeys = <<<<"images", "/", "a.png">>>>
    /\ banners = <<>>
    /\ res.status = 200

----------------------------------------------------------------------------
(* Claims about the keys of the uploads *)

UploadOps == {"uploadImage", "uploadVideo", "uploadImages"}

\* the upload calls of the request handled in this step that arrive at a key
\* the bucket holds: one that was there before the request, or one that an
\* earlier call of the same request has written
Collisions ==
    {i \in 1..Len(UploadKeys') :
        \/ UploadKeys'[i] \in bucket
        \/ \E j \in 1..(i - 1) : UploadKeys'[j] = UploadKeys'[i] /\ UploadKeys'[j] \in bucket'}

\* C17: an upload never overwrites an object.  A request one of whose upload
\* calls arrives at a key that the bucket already holds is answered 500 with
\* no URL, every object of the bucket stays, and a request answered 200 has
\* written each of its keys as a new object.
C17_NoOverwrite ==
    [][(req'.op \in UploadOps /\ supabase)
          => /\ bucket \subseteq bucket'
             /\ Collisions # {} => (res'.status = 500 /\ res'.urls = <<>>)
             /\ (res'.status = 200 /\ Collisions = {})
                   => Cardinality(bucket' \ bucket) = Len(UploadKeys')]_vars

\* an upload whose generated key was there already has been refused
C17_Witness ==
    /\ req.op = "uploadImage"
    /\ supabase
    /\ res.status = 500
    /\ res.details = "Upload failed"
    /\ UploadKeys = <<<<"images", "/", "0", "-", "0", ".png">>>>
    /\ bucket = {<<"images", "/", "0", "-", "0", ".png">>}

----------------------------------------------------------------------------
(* Claims about the spans of the partial responses *)

\* C18: every 206 response of the video route describes a span inside the
\* file: 0 <= start <= end <= fileSize - 1 and Content-Length =
\* end - start + 1 >= 1, whatever the Range header was.
C18_SpanInsideFile ==
    (req.op = "video" /\ res.status = 206) =>
        LET start    == res.headers.contentRange[1]
            end      == res.headers.contentRange[2]
            fileSize == res.headers.contentRange[3]
        IN  /\ fileSize = fs[FirstHit]
            /\ 0 <= start /\ start <= end /\ end <= fileSize - 1
            /\ res.headers.contentLength = end - start + 1
            /\ res.headers.contentLength >= 1

\* 'bytes=1-3' on a two-byte file was answered 206 for the span 1-3 of 2,
\* three bytes long, and one byte is streamed
C18_Witness ==
    /\ req.op = "video"
    /\ req.range = RangeHeader(1, 3)
    /\ res.status = 206
    /\ res.headers.contentRange = <<1, 3, 2>>
    /\ res.headers.contentLength = 3
    /\ stream.open /\ stream.first = 1 /\ stream.last = 1

----------------------------------------------------------------------------
(* Claims about concurrent creations *)

\* the requests that have been given an id
Assigned == {r \in Posts : req.pc[r] = "insert" \/ (req.pc[r] = "done" /\ req.insert[r] # "")}

\* C19: for any interleaving of two POST /api/products requests with the
\* database configured, the ids given to the two are different, and a
\* creation fails only when the database refuses its own insert, never
\* because of the other request.
C19_DistinctIds ==
    (req.op = "posts" /\ supabase) =>
        /\ \A r, q \in Assigned : r # q => req.n[r] # req.n[q]
        /\ \A r \in Posts :
              (req.pc[r] = "done" /\ req.insert[r] = "ok") => res[r].status = 201

\* both requests read the empty store before either inserted: both were
\* given prod-1, the first was created and the insert of the second, which
\* the database would have taken, failed on the first's row
C19_Witness ==
    /\ req.op = "posts"
    /\ supabase
    /\ \A r \in Posts : req.pc[r] = "done" /\ req.n[r] = 1 /\ req.insert[r] = "ok"
    /\ res[1].status = 201 /\ res[1].id = ProdId(1)
    /\ res[2] = Response(500, "Failed to create product")
    /\ DOMAIN products = {ProdId(1)}

----------------------------------------------------------------------------
(* Claims about the generated ids *)

\* the numbers N of the stored ids of the form prod-<N>
StoredNumbers == {n \in 0..MaxId : ProdId(n) \in DOMAIN products}

\* C20: with the database configured and the id lookup succeeding,
\* generateProductId returns prod-(m+1), m the largest N over the stored ids
\* of the form prod-<N>, and prod-1 when no stored id has that form; the id
\* returned is the id of no stored product.
C20_NextId ==
    (req.op = "generateProductId" /\ supabase /\ req.lookup = "ok") =>
        /\ res.id \notin DOMAIN products
        /\ IF StoredNumbers = {}
           THEN res.id = ProdId(1)
           ELSE \E m \in StoredNumbers :
                   /\ \A n \in StoredNumbers : n <= m
                   /\ res.id = ProdId(m + 1)

\* prod-3 was made for a table that holds prod-1, prod-2 and an id of
\* another form
C20_Witness ==
    /\ req.op = "generateProductId"
    /\ supabase
    /\ req.lookup = "ok"
    /\ DOMAIN products = {ProdId(1), ProdId(2), <<"prod-", "x">>}
    /\ res.id = ProdId(3)

\* prod-1 was made for a table whose ids are all of another form
C20_WitnessNone ==
    /\ req.op = "generateProductId"
    /\ supabase
    /\ req.lookup = "ok"
    /\ DOMAIN products = OtherIds
    /\ res.id = ProdId(1)

----------------------------------------------------------------------------
(* Claims about the reads that follow a delete *)

\* the request handled last was a DELETE of a product, the database
\* configured, and it was answered with success
Deleted ==
    /\ supabase
    /\ req.op = "deleteProduct"
    /\ res.status = 200

\* C21: with the database configured, the GET /api/products/:id that follows
\* a successful DELETE /api/products/:id of the same id, no product having
\* been created in between, is answered 404, and the store is left alone.
C21_GoneAfterDelete ==
    [][(Deleted /\ req'.op = "getProduct" /\ req'.id = req.id)
          => res'.status = 404 /\ products' = products]_vars

\* prod-1 was stored with images, its DELETE has removed the images and the
\* row and was answered 200, and the GET of prod-1 that the database
\* answers is answered 200
C21_Witness ==
    /\ Deleted
    /\ req.id = ProdId(1)
    /\ req.body.fetch = "ok"
    /\ Invocations(calls) # <<>>
    /\ DbDeletes(calls) # <<>>
    /\ ProdId(1) \notin DOMAIN products
    /\ ENABLED (GetProduct(ProdId(1), "ok") /\ res'.status = 200
                   /\ res'.product = getMockProducts[ProdId(1)])

====
